---------------------------- MODULE Spec2Model ----------------------------
(***************************************************************************)
(* The game of Ataxx (go-ataxx): the 49-bit dual bitboard, the mask        *)
(* tables, the bitboard and the array move generators, the searches and    *)
(* the transposition table.                                                *)
(*                                                                         *)
(* A SingleBitboard (uint64) is modelled as the set of its set bit         *)
(* indices, a subset of 0..63; the bitwise operators and the two's         *)
(* complement increments / decrements are defined on that representation.  *)
(***************************************************************************)
EXTENDS Integers, Sequences, FiniteSets, TLC

(* ----------------------------- bounds --------------------------------- *)

\* number of moves a behaviour may make away from the recorded game
MaxOff == 2
\* a move away from the recorded game takes one of the first MaxBranch
\* successors of the generator
MaxBranch == 2
\* a search is called on boards with at most MaxSearchEmpty empty cells
MaxSearchEmpty == 1
\* and with a depth of at most MaxDepth
MaxDepth == 4
\* the sizes a table is created with in the runs of stores
MaxTableSize == 3
\* the turns of the recorded game up to which a search of depth 0 is called
MaxOpeningTurn == 6

(* ------------------------- program constants -------------------------- *)

\* NewBitTranspositionTable(160000)
TableSize == 160000

(* ------------------------ uint64 arithmetic --------------------------- *)

\* all bit positions of a uint64
Word == 0..63

And(a, b) == a \cap b
Or(a, b) == a \cup b
Xor(a, b) == (a \ b) \cup (b \ a)
Not(a) == Word \ a

\* 1 << n on a uint64: the bit falls off the word when n >= 64
Shl1(n) == IF n \in Word THEN {n} ELSE {}

\* the lowest set bit: the one with no set bit below it
LowBit(a) == CHOOSE n \in a : a \cap (0..(n - 1)) = {}

\* a - 1 modulo 2^64: borrow through the trailing zeros
Sub1(a) ==
    IF a = {} THEN Word
    ELSE LET l == LowBit(a) IN (a \ {l}) \cup (0..(l - 1))

\* a + 1 modulo 2^64: carry through the trailing ones
Add1(a) ==
    IF a = Word THEN {}
    ELSE LET z == LowBit(Word \ a) IN (a \ (0..z)) \cup {z}

\* (1 << 49) - 1
BoardMask == Sub1(Shl1(49))

(* --------------------------- mask tables ------------------------------ *)

\* the cells InitBitboards and the array generator visit around (x, y):
\* iy outer, ix inner, both -2..2, clamped to the board
Offsets == [k \in 1..25 |-> [iy |-> ((k - 1) \div 5) - 2, ix |-> ((k - 1) % 5) - 2]]

InBoard(x, y) == x >= 0 /\ x < 7 /\ y >= 0 /\ y < 7

\* mutant: the row offset is not looked at
IsSubdivision_ColumnOnly(ix, iy) == ~(ix < -1 \/ ix > 1)

IsSubdivision(ix, iy) == ~(ix < -1 \/ ix > 1) /\ ~(iy < -1 \/ iy > 1)

\* the three tables InitBitboards fills, as one record of functions
InitBitboards ==
    LET Around(c) == {k \in 1..25 :
                        /\ InBoard((c % 7) + Offsets[k].ix, (c \div 7) + Offsets[k].iy)
                        /\ ~(Offsets[k].ix = 0 /\ Offsets[k].iy = 0)}
        MaskBit(c, k) == ((c \div 7) + Offsets[k].iy) * 7 + ((c % 7) + Offsets[k].ix)
    IN [moveMask |-> [c \in 0..48 |-> UNION {Shl1(MaskBit(c, k)) : k \in Around(c)}],
        subdivideMask |-> [c \in 0..48 |->
            UNION {Shl1(MaskBit(c, k)) :
                     k \in {j \in Around(c) : IsSubdivision(Offsets[j].ix, Offsets[j].iy)}}],
        jumpMask |-> [c \in 0..48 |->
            UNION {Shl1(MaskBit(c, k)) :
                     k \in {j \in Around(c) : ~IsSubdivision(Offsets[j].ix, Offsets[j].iy)}}]]

moveMask == InitBitboards.moveMask
subdivideMask == InitBitboards.subdivideMask
jumpMask == InitBitboards.jumpMask

(* ------------------------- bitboard game ------------------------------ *)

\* mutant: the far corner of the maximizer one bit too high
NewBitGame_Bit49 ==
    [maximizingPlayer |-> Or(Shl1(49), Shl1(0)),
     minimizingPlayer |-> Or(Shl1(42), Shl1(6))]

NewBitGame ==
    [maximizingPlayer |-> Or(Shl1(48), Shl1(0)),
     minimizingPlayer |-> Or(Shl1(42), Shl1(6))]

\* Kernighan's loop: clear the lowest set bit until none remains
RECURSIVE PiecesPlacedLoop(_, _)
PiecesPlacedLoop(board, pieces) ==
    IF board = {} THEN pieces
    ELSE PiecesPlacedLoop(And(board, Sub1(board)), pieces + 1)

\* mutant: the count taken on a 32-bit word
PiecesPlaced_Low32(board) == PiecesPlacedLoop({n \in board : n < 32}, 0)

PiecesPlaced(board) == PiecesPlacedLoop(board, 0)

AtaxxBitboard_Score(board) ==
    PiecesPlaced(board.maximizingPlayer) - PiecesPlaced(board.minimizingPlayer)

\* mutant: the populations are compared with a word of 64 set bits
AtaxxBitboard_Finished_FullWord(board) ==
    Or(board.maximizingPlayer, board.minimizingPlayer) = 0..63

AtaxxBitboard_Finished(board) ==
    Or(board.maximizingPlayer, board.minimizingPlayer) = BoardMask

ToMinimaxBoard(move, maximizingPlayer) ==
    IF maximizingPlayer
    THEN [maximizingPlayer |-> move.movingPlayer, minimizingPlayer |-> move.waitingPlayer]
    ELSE [maximizingPlayer |-> move.waitingPlayer, minimizingPlayer |-> move.movingPlayer]

\* the MoveBitboard of the side on the move
ToMoveBitboard(board, maximizingPlayer) ==
    IF maximizingPlayer
    THEN [movingPlayer |-> board.maximizingPlayer, waitingPlayer |-> board.minimizingPlayer]
    ELSE [movingPlayer |-> board.minimizingPlayer, waitingPlayer |-> board.maximizingPlayer]

EmptyCells(move) == And(Not(Or(move.movingPlayer, move.waitingPlayer)), BoardMask)

\* is `bit` an empty cell with a piece of the mover in range?
CanMoveTo(move, emptyCells, bit) ==
    And(emptyCells, Shl1(bit)) # {} /\ And(move.movingPlayer, moveMask[bit]) # {}

\* mutant: the infected pieces are taken from the waiting player and not
\* given to the moving player
MoveTemplate_LosesInfected(move, bit) ==
    LET placed == Or(move.movingPlayer, Shl1(bit))
        infectionMask == And(move.waitingPlayer, subdivideMask[bit])
    IN [movingPlayer |-> placed,
        waitingPlayer |-> And(move.waitingPlayer, Not(infectionMask))]

\* mutant: the infected pieces are not taken from the waiting player
MoveTemplate_KeepsInfected(move, bit) ==
    LET placed == Or(move.movingPlayer, Shl1(bit))
        infectionMask == And(move.waitingPlayer, subdivideMask[bit])
    IN [movingPlayer |-> Or(placed, infectionMask),
        waitingPlayer |-> move.waitingPlayer]

\* the part every move landing on `bit` has in common
MoveTemplate(move, bit) ==
    LET placed == Or(move.movingPlayer, Shl1(bit))
        infectionMask == And(move.waitingPlayer, subdivideMask[bit])
    IN [movingPlayer |-> Or(placed, infectionMask),
        waitingPlayer |-> And(move.waitingPlayer, Not(infectionMask))]

\* (^jumpingMask + 1) & jumpingMask
NextJump(jumpingMask) == And(Add1(Not(jumpingMask)), jumpingMask)

\* mutant: the piece that jumped stays where it was
RECURSIVE JumpLoop_KeepsSource(_, _, _, _)
JumpLoop_KeepsSource(jumpingMask, newMoveTemplate, maximizingPlayer, results) ==
    IF jumpingMask = {} THEN results
    ELSE JumpLoop_KeepsSource(Xor(jumpingMask, NextJump(jumpingMask)), newMoveTemplate,
                              maximizingPlayer,
                              Append(results, ToMinimaxBoard(newMoveTemplate, maximizingPlayer)))

RECURSIVE JumpLoop(_, _, _, _)
JumpLoop(jumpingMask, newMoveTemplate, maximizingPlayer, results) ==
    IF jumpingMask = {} THEN results
    ELSE LET nextJump == NextJump(jumpingMask)
             newMove == [newMoveTemplate EXCEPT !.movingPlayer = Xor(@, nextJump)]
         IN JumpLoop(Xor(jumpingMask, nextJump), newMoveTemplate, maximizingPlayer,
                     Append(results, ToMinimaxBoard(newMove, maximizingPlayer)))

\* mutant: a subdivision onto every cell the player can move to
CanSubdivide_InRange(move, bit) == And(move.movingPlayer, moveMask[bit]) # {}

CanSubdivide(move, bit) == And(move.movingPlayer, subdivideMask[bit]) # {}

\* mutant: the subdivision onto `bit` is appended before the jumps onto it
BitBoards_SubdivisionFirst(bit, move, emptyCells, maximizingPlayer) ==
    IF CanMoveTo(move, emptyCells, bit)
    THEN LET newMoveTemplate == MoveTemplate(move, bit)
             jumped == JumpLoop(And(move.movingPlayer, jumpMask[bit]), newMoveTemplate,
                                maximizingPlayer, <<>>)
         IN IF CanSubdivide(move, bit)
            THEN <<ToMinimaxBoard(newMoveTemplate, maximizingPlayer)>> \o jumped
            ELSE jumped
    ELSE <<>>

\* the boards one round of the loop over the cells appends: the jumps onto
\* `bit`, lowest jumping piece first, then the subdivision onto it
BitBoards(bit, move, emptyCells, maximizingPlayer) ==
    IF CanMoveTo(move, emptyCells, bit)
    THEN LET newMoveTemplate == MoveTemplate(move, bit)
             jumped == JumpLoop(And(move.movingPlayer, jumpMask[bit]), newMoveTemplate,
                                maximizingPlayer, <<>>)
         IN IF CanSubdivide(move, bit)
            THEN Append(jumped, ToMinimaxBoard(newMoveTemplate, maximizingPlayer))
            ELSE jumped
    ELSE <<>>

\* for bit := 0; bit < 49; bit++: the rounds for the cells from..to - 1 in
\* ascending order (the range is halved only to keep the evaluation shallow)
RECURSIVE BitLoop(_, _, _, _, _)
BitLoop(from, to, move, emptyCells, maximizingPlayer) ==
    IF to - from = 1 THEN BitBoards(from, move, emptyCells, maximizingPlayer)
    ELSE LET mid == (from + to) \div 2
         IN BitLoop(from, mid, move, emptyCells, maximizingPlayer)
              \o BitLoop(mid, to, move, emptyCells, maximizingPlayer)

\* what the generator returns for a board that is already finished
FinishedBoards(board) == <<board>>

AtaxxBitboard_NextBoards(board, maximizingPlayer) ==
    IF AtaxxBitboard_Finished(board) THEN FinishedBoards(board)
    ELSE LET move == ToMoveBitboard(board, maximizingPlayer)
         IN BitLoop(0, 49, move, EmptyCells(move), maximizingPlayer)

(* --------------------------- array game ------------------------------- *)

\* mutant: the corners of the two sides exchanged
NewGame_Exchanged ==
    [y \in 0..6 |-> [x \in 0..6 |->
        IF (y = 0 /\ x = 0) \/ (y = 6 /\ x = 6) THEN -1
        ELSE IF (y = 0 /\ x = 6) \/ (y = 6 /\ x = 0) THEN 1
        ELSE 0]]

NewGame ==
    [y \in 0..6 |-> [x \in 0..6 |->
        IF (y = 0 /\ x = 0) \/ (y = 6 /\ x = 6) THEN 1
        ELSE IF (y = 0 /\ x = 6) \/ (y = 6 /\ x = 0) THEN -1
        ELSE 0]]

RECURSIVE ScoreLoop(_, _, _)
ScoreLoop(board, cell, score) ==
    IF cell >= 49 THEN score
    ELSE ScoreLoop(board, cell + 1, score + board[cell \div 7][cell % 7])

AtaxxBoard_Score(board) == ScoreLoop(board, 0, 0)

AtaxxBoard_Finished(board) == \A y \in 0..6 : \A x \in 0..6 : board[y][x] # 0

\* the board template of a move landing on (x, y): infect, then place
BoardTemplate(board, x, y, color) ==
    [yy \in 0..6 |-> [xx \in 0..6 |->
        IF yy = y /\ xx = x THEN color
        ELSE IF yy - y \in -1..1 /\ xx - x \in -1..1 /\ board[yy][xx] = -color THEN color
        ELSE board[yy][xx]]]

\* the pieces of `color` in the clamped 5x5 neighbourhood of (x, y), in
\* the order of the iy / ix loops
MoversAround(board, x, y, color) ==
    SelectSeq(Offsets, LAMBDA o : /\ InBoard(x + o.ix, y + o.iy)
                                  /\ board[y + o.iy][x + o.ix] = color)

\* the successors landing on the empty cell (x, y): one per jump in loop
\* order, then the template when some piece can subdivide
CellBoards(board, x, y, color) ==
    LET movers == MoversAround(board, x, y, color)
        newBoardTemplate == BoardTemplate(board, x, y, color)
        jumpers == SelectSeq(movers, LAMBDA o : ~IsSubdivision(o.ix, o.iy))
        hasSubdivision == \E k \in 1..Len(movers) : IsSubdivision(movers[k].ix, movers[k].iy)
        jumps == [k \in 1..Len(jumpers) |->
                    [newBoardTemplate EXCEPT ![y + jumpers[k].iy][x + jumpers[k].ix] = 0]]
    IN IF hasSubdivision THEN Append(jumps, newBoardTemplate) ELSE jumps

\* the loops over y and x: the rounds for the cells from..to - 1 in
\* row-major order (halved as in BitLoop)
RECURSIVE CellLoop(_, _, _, _)
CellLoop(board, from, to, color) ==
    IF to - from = 1
    THEN IF board[from \div 7][from % 7] = 0
         THEN CellBoards(board, from % 7, from \div 7, color)
         ELSE <<>>
    ELSE LET mid == (from + to) \div 2
         IN CellLoop(board, from, mid, color) \o CellLoop(board, mid, to, color)

AtaxxBoard_NextBoards(board, maximizingPlayer) ==
    LET color == IF maximizingPlayer THEN 1 ELSE -1
        hasEmptyCell == \E y \in 0..6 : \E x \in 0..6 : board[y][x] = 0
        results == CellLoop(board, 0, 49, color)
    IN IF hasEmptyCell /\ Len(results) = 0 THEN <<board>> ELSE results

(* ------------- array game, value receiver (src/ataxx.go) -------------- *)

\* ix outer, iy inner, both -2..2: the order of the neighbourhood loops
ValueOffsets == [k \in 1..25 |-> [ix |-> ((k - 1) \div 5) - 2, iy |-> ((k - 1) % 5) - 2]]

\* "Establish wether we are jumping or subdividing": what is left of
\* isSubdivision after `ix < 1 || ix > 1` and `iy < 1 || iy > 1`
ValueIsSubdivision(ix, iy) == ~(ix < 1 \/ ix > 1) /\ ~(iy < 1 \/ iy > 1)

\* func (board AtaxxBoard) Copy() (newBoard AtaxxBoard)
AtaxxBoard_Copy(board) == [y \in 0..6 |-> [x \in 0..6 |-> board[y][x]]]

\* "Infect enemy pieces": the loops over iix and iiy, which assign to
\* `board`, the receiver
ValueInfect(board, x, y, color) ==
    [yy \in 0..6 |-> [xx \in 0..6 |->
        IF yy - y \in -1..1 /\ xx - x \in -1..1 /\ board[yy][xx] = -color THEN color
        ELSE board[yy][xx]]]

\* one round of the loops over ix and iy for the empty cell (x, y); `loop`
\* holds the receiver `board` and `results` as the rounds before left them
ValueRound(loop, x, y, color, k) ==
    LET ix == ValueOffsets[k].ix
        iy == ValueOffsets[k].iy
        hasSubdivided == FALSE
    IN IF ~InBoard(x + ix, y + iy) THEN loop
       ELSE IF loop.board[iy + y][ix + x] # color THEN loop
       ELSE IF ValueIsSubdivision(ix, iy)
       THEN IF hasSubdivided THEN loop
            ELSE LET newBoard == AtaxxBoard_Copy(loop.board)
                 IN [board |-> ValueInfect(loop.board, x, y, color),
                     results |-> Append(loop.results, [newBoard EXCEPT ![y][x] = color])]
       ELSE LET newBoard == AtaxxBoard_Copy(loop.board)
            IN [board |-> ValueInfect(loop.board, x, y, color),
                results |-> Append(loop.results,
                                   [newBoard EXCEPT ![y][x] = color, ![iy + y][ix + x] = 0])]

\* the rounds from..to - 1 of the loops over ix and iy, one after the other
\* (the first half is worked out before the second is entered)
RECURSIVE ValueRounds(_, _, _, _, _, _)
ValueRounds(loop, x, y, color, from, to) ==
    IF to - from = 1 THEN ValueRound(loop, x, y, color, from)
    ELSE LET mid == (from + to) \div 2
             first == ValueRounds(loop, x, y, color, from, mid)
         IN IF Len(first.results) >= 0
            THEN ValueRounds(first, x, y, color, mid, to)
            ELSE first

\* the loops over x and y: the cells from..to - 1, x outer and y inner
RECURSIVE ValueCells(_, _, _, _)
ValueCells(loop, color, from, to) ==
    IF to - from = 1
    THEN IF loop.board[from % 7][from \div 7] = 0
         THEN ValueRounds(loop, from \div 7, from % 7, color, 1, 26)
         ELSE loop
    ELSE LET mid == (from + to) \div 2
             first == ValueCells(loop, color, from, mid)
         IN IF Len(first.results) >= 0
            THEN ValueCells(first, color, mid, to)
            ELSE first

\* func (board AtaxxBoard) NextBoards(color int) of src/ataxx.go
AtaxxBoardValue_NextBoards(board, color) ==
    LET hasEmptyCell == \E y \in 0..6 : \E x \in 0..6 : board[y][x] = 0
        loop == ValueCells([board |-> board, results |-> <<>>], color, 0, 49)
    IN IF hasEmptyCell /\ Len(loop.results) = 0 THEN <<loop.board>> ELSE loop.results

\* the array board whose cell [y][x] is bit y*7+x of the bitboard
ToBoard(board) ==
    [y \in 0..6 |-> [x \in 0..6 |->
        IF y * 7 + x \in board.maximizingPlayer THEN 1
        ELSE IF y * 7 + x \in board.minimizingPlayer THEN -1
        ELSE 0]]

\* the bitboard whose bit y*7+x is cell [y][x] of the array board
ToBitboard(board) ==
    [maximizingPlayer |-> UNION {IF board[c \div 7][c % 7] = 1 THEN Shl1(c) ELSE {} : c \in 0..48},
     minimizingPlayer |-> UNION {IF board[c \div 7][c % 7] = -1 THEN Shl1(c) ELSE {} : c \in 0..48}]

(* ------------------------------ searches ------------------------------ *)

\* mutant: the board that is worst for the player is kept
RECURSIVE LeafLoop_Lowest(_, _, _, _, _)
LeafLoop_Lowest(boards, i, sign, bestBoard, bestScore) ==
    IF i > Len(boards) THEN [board |-> bestBoard, score |-> bestScore]
    ELSE LET newScore == sign * AtaxxBitboard_Score(boards[i])
         IN IF i = 1 \/ newScore < bestScore
            THEN LeafLoop_Lowest(boards, i + 1, sign, boards[i], newScore)
            ELSE LeafLoop_Lowest(boards, i + 1, sign, bestBoard, bestScore)

\* the first board of boards[i..] that beats the best seen so far, kept as
\* [board, score]: the "store best board seen" step of the depth 0 loops
RECURSIVE LeafLoop(_, _, _, _, _)
LeafLoop(boards, i, sign, bestBoard, bestScore) ==
    IF i > Len(boards) THEN [board |-> bestBoard, score |-> bestScore]
    ELSE LET newScore == sign * AtaxxBitboard_Score(boards[i])
         IN IF i = 1 \/ newScore > bestScore
            THEN LeafLoop(boards, i + 1, sign, boards[i], newScore)
            ELSE LeafLoop(boards, i + 1, sign, bestBoard, bestScore)

\* mutant: below depth 1 the recursion is handed a depth two less
Deeper_TwoLess(depth) == IF depth >= 2 THEN depth - 2 ELSE depth - 1

\* the depth a search hands to its recursive calls: `depth-1`
Deeper(depth) == depth - 1

\* the longest chain of nested recursive calls below a call whose loop
\* made the calls of the account
Nested(searched) ==
    IF Len(searched) = 0 THEN 0
    ELSE 1 + CHOOSE n \in {searched[i].nested : i \in 1..Len(searched)} :
                 \A i \in 1..Len(searched) : searched[i].nested <= n

RECURSIVE Minimax(_, _, _)
RECURSIVE MinimaxLoop(_, _, _, _, _, _, _)

\* func Minimax(game, color, depth) (maxBoard, maxScore); with the result
\* goes the account of the recursive calls of its loop: the score of each,
\* the depth it was handed and the chain of calls nested below it
Minimax(game, color, depth) ==
    LET boards == AtaxxBitboard_NextBoards(game, color = 1)
    IN IF Len(boards) = 0
       THEN [board |-> game, score |-> color * AtaxxBitboard_Score(game), searched |-> <<>>]
       ELSE IF depth = 0
       THEN LET best == LeafLoop(boards, 1, color, game, 0)
            IN [board |-> best.board, score |-> best.score, searched |-> <<>>]
       ELSE MinimaxLoop(boards, 1, color, depth, game, 0, <<>>)

MinimaxLoop(boards, i, color, depth, maxBoard, maxScore, searched) ==
    IF i > Len(boards) THEN [board |-> maxBoard, score |-> maxScore, searched |-> searched]
    ELSE LET child == Minimax(boards[i], -color, Deeper(depth))
             newScore == -child.score
             nextSearched == Append(searched, [score |-> newScore, depth |-> Deeper(depth),
                                               nested |-> Nested(child.searched)])
         IN IF i = 1 \/ newScore > maxScore
            THEN MinimaxLoop(boards, i + 1, color, depth, boards[i], newScore, nextSearched)
            ELSE MinimaxLoop(boards, i + 1, color, depth, maxBoard, maxScore, nextSearched)

\* mutant: a successor that equals the best one replaces it
Better_OrEqual(sign, newScore, bestScore) == sign * newScore >= sign * bestScore

\* mutant: the minimizing player keeps the highest score as well
Better_HighestForBoth(sign, newScore, bestScore) == newScore > bestScore

\* "store best board seen": does the score of this successor replace the
\* best one of the maximizing (sign 1) or minimizing (sign -1) player?
Better(sign, newScore, bestScore) == sign * newScore > sign * bestScore

\* mutant: the loop is left as soon as alpha and beta are two apart
CutOff_Early(alpha, beta) == alpha + 2 >= beta

\* mutant: the loop is left only when alpha has passed beta
CutOff_Passed(alpha, beta) == alpha > beta

\* "terminate if known suboptimal branch found"
CutOff(alpha, beta) == alpha >= beta

RECURSIVE AlphaBeta(_, _, _, _, _)
RECURSIVE AlphaBetaLoop(_, _, _, _, _, _, _, _, _)
RECURSIVE AlphaBetaRound(_, _, _, _, _, _, _, _, _, _)

\* what AlphaBeta hands back: (bestBoard, bestScore), and for the account of
\* its loop below maximum depth one entry per successor it searched: the
\* score the recursion returned, alpha and beta as updated after it, the
\* depth the recursion was handed and the chain of calls nested below it
Best(bestBoard, bestScore, searched) ==
    [board |-> bestBoard, score |-> bestScore, searched |-> searched]

\* func AlphaBeta(game, maximizingPlayer, depth, alpha, beta) (bestBoard, bestScore)
AlphaBeta(game, maximizingPlayer, depth, alpha, beta) ==
    LET color == IF maximizingPlayer THEN 1 ELSE -1
        boards == AtaxxBitboard_NextBoards(game, color = 1)
    IN IF Len(boards) = 0
       THEN Best(game, AtaxxBitboard_Score(game), <<>>)
       ELSE IF depth = 0
       THEN LET best == LeafLoop(boards, 1, color, game, 0)
            IN Best(best.board, color * best.score, <<>>)
       ELSE AlphaBetaLoop(boards, 1, maximizingPlayer, depth, alpha, beta, game, 0, <<>>)

\* the loops of the maximizing and of the minimizing player over boards[i..]
AlphaBetaLoop(boards, i, maximizingPlayer, depth, alpha, beta, bestBoard, bestScore, searched) ==
    IF i > Len(boards) THEN Best(bestBoard, bestScore, searched)
    ELSE AlphaBetaRound(boards, i, maximizingPlayer, depth, alpha, beta, bestBoard, bestScore,
                        searched,
                        AlphaBeta(boards[i], ~maximizingPlayer, Deeper(depth), alpha, beta))

\* the rest of a round of the loops, with what the recursive call returned
AlphaBetaRound(boards, i, maximizingPlayer, depth, alpha, beta, bestBoard, bestScore, searched, child) ==
    LET newScore == child.score
        replace == i = 1 \/ Better(IF maximizingPlayer THEN 1 ELSE -1, newScore, bestScore)
        nextBoard == IF replace THEN boards[i] ELSE bestBoard
        nextScore == IF replace THEN newScore ELSE bestScore
        nextAlpha == IF maximizingPlayer /\ nextScore > alpha THEN nextScore ELSE alpha
        nextBeta == IF ~maximizingPlayer /\ nextScore < beta THEN nextScore ELSE beta
        nextSearched == Append(searched, [score |-> newScore, alpha |-> nextAlpha,
                                          beta |-> nextBeta, depth |-> Deeper(depth),
                                          nested |-> Nested(child.searched)])
    IN IF CutOff(nextAlpha, nextBeta)
       THEN Best(nextBoard, nextScore, nextSearched)
       ELSE AlphaBetaLoop(boards, i + 1, maximizingPlayer, depth, nextAlpha, nextBeta,
                          nextBoard, nextScore, nextSearched)

(* ------------------------ transposition table ------------------------ *)

\* make(map[...]...): the map without entries
EmptyMap == <<>>

NewBitTranspositionTable(size) == [transpositionMap |-> EmptyMap, maxSize |-> size]

\* res, found := table.transpositionMap[key]; a key that is absent yields
\* the zero value: the empty board and score 0
LoadEntry(table, key) ==
    IF key \in DOMAIN table.transpositionMap
    THEN [resultBoard |-> table.transpositionMap[key].resultBoard,
          resultScore |-> table.transpositionMap[key].resultScore,
          found |-> TRUE]
    ELSE [resultBoard |-> [maximizingPlayer |-> {}, minimizingPlayer |-> {}],
          resultScore |-> 0,
          found |-> FALSE]

\* a table that is cleared only once it holds more than maxSize entries
MustClear_PastSize(table) == Cardinality(DOMAIN table.transpositionMap) > table.maxSize

\* "clear hash table if we are about to grow past maximum size"
MustClear(table) == Cardinality(DOMAIN table.transpositionMap) = table.maxSize

\* the clearing and the assignment table.transpositionMap[key] = value
StoreEntry(table, key, value) ==
    LET kept == IF MustClear(table) THEN EmptyMap ELSE table.transpositionMap
    IN [table EXCEPT !.transpositionMap = (key :> value) @@ kept]

\* the key of AtaxxBitTranspositionTable
AtaxxBitTransposition(game, maximizingPlayer, depth, alpha, beta) ==
    [board |-> game, maximizingPlayer |-> maximizingPlayer,
     depth |-> depth, alpha |-> alpha, beta |-> beta]

AtaxxBitTranspositionTable_Load(table, game, maximizingPlayer, depth, alpha, beta) ==
    LoadEntry(table, AtaxxBitTransposition(game, maximizingPlayer, depth, alpha, beta))

AtaxxBitTranspositionTable_Store(table, game, maximizingPlayer, depth, alpha, beta, resultBoard, resultScore) ==
    StoreEntry(table, AtaxxBitTransposition(game, maximizingPlayer, depth, alpha, beta),
               [resultBoard |-> resultBoard, resultScore |-> resultScore])

\* the table as the search reaches it through the TranspositionTable
\* interface: the key is the board, the player about to move and the depth
TranspositionKey(game, maximizingPlayer, depth) ==
    [board |-> game, maximizingPlayer |-> maximizingPlayer, depth |-> depth]

TranspositionTable_Load(table, game, maximizingPlayer, depth) ==
    LoadEntry(table, TranspositionKey(game, maximizingPlayer, depth))

\* mutant: the results of the searches at depth 0 are not stored
TranspositionTable_Store_AboveLeaves(table, game, maximizingPlayer, depth, resultBoard, resultScore) ==
    IF depth = 0 THEN table
    ELSE StoreEntry(table, TranspositionKey(game, maximizingPlayer, depth),
                    [resultBoard |-> resultBoard, resultScore |-> resultScore])

TranspositionTable_Store(table, game, maximizingPlayer, depth, resultBoard, resultScore) ==
    StoreEntry(table, TranspositionKey(game, maximizingPlayer, depth),
               [resultBoard |-> resultBoard, resultScore |-> resultScore])

(* ---------------- alpha-beta with transposition hashing --------------- *)

\* hashBoard != abBoard compares two interface values that hold pointers:
\* Load hands out the address of its own copy of the entry, AlphaBeta its
\* argument or a board the generator allocated, so the two never point to
\* the same variable, whatever the boards hold
HashBoardDiffers(hashBoard, abBoard) == TRUE

\* what a call hands back: (bestBoard, bestScore), the table as the call
\* leaves it, whether the call ended in panic("Not equal, terminating."),
\* and the account of its loop below maximum depth, as for AlphaBeta
Returned(bestBoard, bestScore, table) ==
    [board |-> bestBoard, score |-> bestScore, transposition |-> table, panicked |-> FALSE,
     searched |-> <<>>]

Panicked(hashBoard, hashScore, table) ==
    [board |-> hashBoard, score |-> hashScore, transposition |-> table, panicked |-> TRUE,
     searched |-> <<>>]

\* hashBoard, hashScore, found := transposition.Load(game, maximizingPlayer, depth):
\* the call's window is not handed to the table
AlphaBetaTranspositionLookup(game, maximizingPlayer, depth, alpha, beta, table) ==
    TranspositionTable_Load(table, game, maximizingPlayer, depth)

\* the deferred function: what the body below the defer statement returned
\* (r) is stored under the arguments of the call, unless the body panicked
AlphaBetaTranspositionDefer(r, game, maximizingPlayer, depth) ==
    IF r.panicked THEN r
    ELSE [Returned(r.board, r.score,
                   TranspositionTable_Store(r.transposition, game, maximizingPlayer,
                                            depth, r.board, r.score))
             EXCEPT !.searched = r.searched]

RECURSIVE AlphaBetaTransposition(_, _, _, _, _, _)
RECURSIVE AlphaBetaTranspositionLoop(_, _, _, _, _, _, _, _, _, _)
RECURSIVE AlphaBetaTranspositionRound(_, _, _, _, _, _, _, _, _, _)

\* the body below the defer statement
AlphaBetaTranspositionMiss(game, maximizingPlayer, depth, alpha, beta, table) ==
    LET color == IF maximizingPlayer THEN 1 ELSE -1
        boards == AtaxxBitboard_NextBoards(game, color = 1)
    IN IF Len(boards) = 0
       THEN Returned(game, AtaxxBitboard_Score(game), table)
       ELSE IF depth = 0
       THEN LET best == LeafLoop(boards, 1, color, game, 0)
            IN Returned(best.board, color * best.score, table)
       ELSE AlphaBetaTranspositionLoop(boards, 1, maximizingPlayer, depth, alpha, beta,
                                       game, 0, table, <<>>)

\* func AlphaBetaTransposition(game, maximizingPlayer, depth, alpha, beta,
\*                             transposition) (bestBoard, bestScore)
AlphaBetaTransposition(game, maximizingPlayer, depth, alpha, beta, table) ==
    LET hash == AlphaBetaTranspositionLookup(game, maximizingPlayer, depth, alpha, beta, table)
    IN IF hash.found
       THEN LET ab == AlphaBeta(game, maximizingPlayer, depth, alpha, beta)
            IN IF HashBoardDiffers(hash.resultBoard, ab.board) \/ hash.resultScore # ab.score
               THEN Panicked(hash.resultBoard, hash.resultScore, table)
               ELSE Returned(hash.resultBoard, hash.resultScore, table)
       ELSE AlphaBetaTranspositionDefer(
                AlphaBetaTranspositionMiss(game, maximizingPlayer, depth, alpha, beta, table),
                game, maximizingPlayer, depth)

AlphaBetaTranspositionLoop(boards, i, maximizingPlayer, depth, alpha, beta, bestBoard, bestScore, table, searched) ==
    IF i > Len(boards) THEN [Returned(bestBoard, bestScore, table) EXCEPT !.searched = searched]
    ELSE AlphaBetaTranspositionRound(boards, i, maximizingPlayer, depth, alpha, beta,
                                     bestBoard, bestScore, searched,
                                     AlphaBetaTransposition(boards[i], ~maximizingPlayer,
                                                            Deeper(depth), alpha, beta, table))

\* the rest of a round of the loops, with what the recursive call returned
AlphaBetaTranspositionRound(boards, i, maximizingPlayer, depth, alpha, beta, bestBoard, bestScore, searched, child) ==
    LET newScore == child.score
        replace == i = 1 \/ Better(IF maximizingPlayer THEN 1 ELSE -1, newScore, bestScore)
        nextBoard == IF replace THEN boards[i] ELSE bestBoard
        nextScore == IF replace THEN newScore ELSE bestScore
        nextAlpha == IF maximizingPlayer /\ nextScore > alpha THEN nextScore ELSE alpha
        nextBeta == IF ~maximizingPlayer /\ nextScore < beta THEN nextScore ELSE beta
        nextSearched == Append(searched, [score |-> newScore, alpha |-> nextAlpha,
                                          beta |-> nextBeta, depth |-> Deeper(depth),
                                          nested |-> Nested(child.searched)])
    IN IF child.panicked THEN [child EXCEPT !.searched = <<>>]
       ELSE IF CutOff(nextAlpha, nextBeta)
       THEN [Returned(nextBoard, nextScore, child.transposition)
                EXCEPT !.searched = nextSearched]
       ELSE AlphaBetaTranspositionLoop(boards, i + 1, maximizingPlayer, depth,
                                       nextAlpha, nextBeta, nextBoard, nextScore,
                                       child.transposition, nextSearched)

(* ------------------------- the game being played ---------------------- *)

VARIABLES
    board,          \* main's `board`: the AtaxxBitboard on the table
    color,          \* main's `color`: 1 when X (the maximizer) is on the move
    turn,           \* main's `turn`
    off,            \* moves made away from the recorded game
    transposition,  \* main's `transposition`: the transposition table
    search,         \* the search called on `board`: its arguments and what it returned
    stored,         \* the last Store into `transposition`: its key, its value and the map it found
    pc,             \* the place main is at
    masks           \* the package's moveMask, subdivideMask and jumpMask

vars == <<board, color, turn, off, transposition, search, stored, pc, masks>>

\* the recorded game: in ply k of the self-play loop the search answers with
\* successor Script[k] of the generator (a game that meets a forced pass of
\* X with one empty cell left and ends on a full board)
Script ==
    <<13, 12, 19, 4, 18, 15, 1, 11, 7, 22, 10, 42,
      25, 39, 66, 43, 89, 22, 27, 49, 3, 38, 21, 39,
      76, 4, 62, 83, 35, 7, 29, 36, 34, 37, 7, 6,
      6, 35, 8, 30, 6, 9, 5, 4, 1, 10>>

\* the board a search hands back to main's loop: its argument when the
\* generator returns nothing, else one of the generated boards
Chosen(game, boards, i) == IF Len(boards) = 0 THEN game ELSE boards[i]

\* no search has been called
NoSearch ==
    [op |-> "none", game |-> NewBitGame, maximizingPlayer |-> TRUE, depth |-> 0,
     alpha |-> 0, beta |-> 0, board |-> NewBitGame, score |-> 0, panicked |-> FALSE,
     table |-> NewBitTranspositionTable(TableSize), searched |-> <<>>]

\* no Store has been called
NoStore ==
    [called |-> FALSE, key |-> AtaxxBitTransposition(NewBitGame, TRUE, 0, 0, 0),
     value |-> [resultBoard |-> NewBitGame, resultScore |-> 0], before |-> EmptyMap]

\* main up to its self-play loop, with a table of the given size; the mask
\* tables are as the call of InitBitboards before the loop left them
Start(size) ==
    /\ board = NewBitGame
    /\ color = 1
    /\ turn = 1
    /\ off = 0
    /\ transposition = NewBitTranspositionTable(size)
    /\ search = NoSearch
    /\ stored = NoStore
    /\ pc = "loop"
    /\ masks = InitBitboards

Init == Start(TableSize)

\* one round of main's self-play loop, the search replaced by the record
SelfPlay ==
    /\ off = 0
    /\ turn <= Len(Script)
    /\ ~search.panicked
    /\ ~AtaxxBitboard_Finished(board)
    /\ LET boards == AtaxxBitboard_NextBoards(board, color = 1)
       IN board' = Chosen(board, boards, Script[turn])
    /\ color' = -color
    /\ turn' = turn + 1
    /\ search' = NoSearch
    /\ UNCHANGED <<off, transposition, stored, pc, masks>>

\* any move of either side: the board is replaced by one of the boards the
\* generator returns for it
Move(maximizingPlayer, i) ==
    /\ off < MaxOff
    /\ LET boards == AtaxxBitboard_NextBoards(board, maximizingPlayer)
       IN /\ i <= Len(boards)
          /\ board' = boards[i]
    /\ color' = IF maximizingPlayer THEN -1 ELSE 1
    /\ off' = off + 1
    /\ UNCHANGED <<turn, transposition, search, stored, pc, masks>>

MaxMoves == \E i \in 1..MaxBranch : Move(TRUE, i)

MinMoves == \E i \in 1..MaxBranch : Move(FALSE, i)

Next == SelfPlay \/ MaxMoves \/ MinMoves

\* the game: the recorded game and the moves away from it
Spec == Init /\ [][Next]_vars

(* ------------------------- calls of the searches ---------------------- *)

\* the windows a search is called with
Windows == {<<-49, 49>>, <<-1, 1>>}

\* the windows a search of a board is called with: the two above, a narrow
\* one around the score the board has and a narrow one below it
WindowsAt(game) ==
    Windows \cup {<<AtaxxBitboard_Score(game) - 1, AtaxxBitboard_Score(game) + 1>>,
                  <<AtaxxBitboard_Score(game) - 3, AtaxxBitboard_Score(game) - 1>>}

\* a search is called once on the board on the table, when few cells are
\* empty
Searchable ==
    /\ search = NoSearch
    /\ Cardinality((0..48) \ (board.maximizingPlayer \cup board.minimizingPlayer))
          <= MaxSearchEmpty

\* the record of a call on the board on the table: what it returned, whether
\* it ended in a panic, and the table it was given as the call leaves it
Called(op, maximizingPlayer, depth, alpha, beta, r, isPanic, table) ==
    [op |-> op, game |-> board, maximizingPlayer |-> maximizingPlayer, depth |-> depth,
     alpha |-> alpha, beta |-> beta, board |-> r.board, score |-> r.score,
     panicked |-> isPanic, table |-> table,
     searched |-> IF "searched" \in DOMAIN r THEN r.searched ELSE <<>>]

\* AlphaBeta(board, maximizingPlayer, depth, alpha, beta)
CallAlphaBeta ==
    /\ Searchable
    /\ \E maximizingPlayer \in BOOLEAN, depth \in 0..MaxDepth, w \in WindowsAt(board) :
          search' = Called("AlphaBeta", maximizingPlayer, depth, w[1], w[2],
                           AlphaBeta(board, maximizingPlayer, depth, w[1], w[2]), FALSE,
                           NoSearch.table)
    /\ UNCHANGED <<board, color, turn, off, transposition, stored, pc, masks>>

\* AlphaBetaTransposition(board, maximizingPlayer, depth, alpha, beta,
\*                        NewBitTranspositionTable(size))
CallAlphaBetaTransposition ==
    /\ Searchable
    /\ \E maximizingPlayer \in BOOLEAN, depth \in 0..MaxDepth, w \in WindowsAt(board) :
          LET r == AlphaBetaTransposition(board, maximizingPlayer, depth, w[1], w[2],
                                          NewBitTranspositionTable(TableSize))
          IN search' = Called("AlphaBetaTransposition", maximizingPlayer, depth,
                              w[1], w[2], r, r.panicked, r.transposition)
    /\ UNCHANGED <<board, color, turn, off, transposition, stored, pc, masks>>

\* Minimax(board, color, depth): on the boards with few empty cells at any
\* depth, on the first boards of the recorded game at depth 0
CallMinimax ==
    /\ search = NoSearch
    /\ \E side \in {1, -1}, depth \in 0..MaxDepth :
          /\ (depth = 0 /\ turn <= MaxOpeningTurn) \/ Searchable
          /\ search' = Called("Minimax", side = 1, depth, 0, 0,
                              Minimax(board, side, depth), FALSE, NoSearch.table)
    /\ UNCHANGED <<board, color, turn, off, transposition, stored, pc, masks>>

NextSearch == SelfPlay \/ CallAlphaBeta \/ CallAlphaBetaTransposition \/ CallMinimax

\* the recorded game with calls of the searches on its last boards
SpecSearch == Init /\ [][NextSearch]_vars

(* ------------------------- stores into a table ------------------------ *)

\* the boards the stored keys and results are taken from
StoreGames == {NewBitGame, AtaxxBitboard_NextBoards(NewBitGame, TRUE)[1]}

InitTable == \E size \in 0..MaxTableSize : Start(size)

\* table.Store(game, maximizingPlayer, depth, alpha, beta, resultBoard, resultScore)
CallStore ==
    /\ \E game \in StoreGames, maximizingPlayer \in BOOLEAN, depth \in {0},
          resultScore \in {-1, 1} :
          LET resultBoard == AtaxxBitboard_NextBoards(game, maximizingPlayer)[1]
          IN /\ transposition' =
                    AtaxxBitTranspositionTable_Store(transposition, game, maximizingPlayer,
                        depth, -49, 49, resultBoard, resultScore)
             /\ stored' =
                    [called |-> TRUE,
                     key |-> AtaxxBitTransposition(game, maximizingPlayer, depth, -49, 49),
                     value |-> [resultBoard |-> resultBoard, resultScore |-> resultScore],
                     before |-> transposition.transpositionMap]
    /\ UNCHANGED <<board, color, turn, off, search, pc, masks>>

NextTable == CallStore

\* a table of any small size and the stores into it
SpecTable == InitTable /\ [][NextTable]_vars

(* ------------------------- main's entry point ------------------------- *)

\* the mask tables before InitBitboards has run: Go's zero value
ZeroMasks ==
    [moveMask |-> [c \in 0..48 |-> {}], subdivideMask |-> [c \in 0..48 |-> {}],
     jumpMask |-> [c \in 0..48 |-> {}]]

\* the boards posted to /ply: one cell empty (every second cell of the
\* board in turn), the cells before the middle of the board held by X and
\* the cells from it on by O
PlyBoards ==
    {ToBoard([maximizingPlayer |-> (0..24) \ {2 * j}, minimizingPlayer |-> (25..48) \ {2 * j}]) : j \in 0..24}

\* mutant: requests are handled from the start of main on
Serving_FromStart(position) == position \in {"main", "routes", "serving"}

\* the handlers run once ListenAndServe has been called
Serving(position) == position = "serving"

\* the start of main: nothing has run
InitMain ==
    /\ board = NewBitGame
    /\ color = 1
    /\ turn = 1
    /\ off = 0
    /\ transposition = NewBitTranspositionTable(TableSize)
    /\ search = NoSearch
    /\ stored = NoStore
    /\ pc = "main"
    /\ masks = ZeroMasks

\* `if true {`: InitBitboards() as the first statement of the block
MainInitBitboards ==
    /\ pc = "main"
    /\ masks' = InitBitboards
    /\ pc' = "routes"
    /\ UNCHANGED <<board, color, turn, off, transposition, search, stored>>

\* the routes are set up and http.ListenAndServe is called
ListenAndServe ==
    /\ pc = "routes"
    /\ pc' = "serving"
    /\ UNCHANGED <<board, color, turn, off, transposition, search, stored, masks>>

\* the /ply handler: the posted board is converted to a bitboard and
\* AlphaBeta is called on it at depth 4 with the full window; the generator
\* reads the mask tables and writes none of them
Ply ==
    /\ Serving(pc)
    /\ search = NoSearch
    /\ \E posted \in PlyBoards, maximizingPlayer \in BOOLEAN :
          LET bitboard == ToBitboard(posted)
              r == AlphaBeta(bitboard, maximizingPlayer, 4, -49, 49)
          IN search' = [NoSearch EXCEPT !.op = "AlphaBeta", !.game = bitboard,
                                        !.maximizingPlayer = maximizingPlayer, !.depth = 4,
                                        !.alpha = -49, !.beta = 49,
                                        !.board = ToBitboard(ToBoard(r.board)),
                                        !.score = r.score, !.searched = r.searched]
    /\ UNCHANGED <<board, color, turn, off, transposition, stored, pc, masks>>

\* the handler has written its answer and returns
Respond ==
    /\ pc = "serving"
    /\ search # NoSearch
    /\ search' = NoSearch
    /\ UNCHANGED <<board, color, turn, off, transposition, stored, pc, masks>>

\* http.ListenAndServe returns and log.Fatal ends the program
Fatal ==
    /\ pc = "serving"
    /\ pc' = "exit"
    /\ UNCHANGED <<board, color, turn, off, transposition, search, stored, masks>>

\* the block of the server skipped (the `if false {` of the self-play
\* builds): InitBitboards() and the set-up before the self-play loop
MainSelfPlayInit ==
    /\ pc = "main"
    /\ masks' = InitBitboards
    /\ pc' = "loop"
    /\ UNCHANGED <<board, color, turn, off, transposition, search, stored>>

\* one round of the self-play loop
MainSelfPlay == pc = "loop" /\ SelfPlay

NextMain ==
    \/ MainInitBitboards
    \/ ListenAndServe
    \/ Ply
    \/ Respond
    \/ Fatal
    \/ MainSelfPlayInit
    \/ MainSelfPlay

\* main from its first statement
SpecMain == InitMain /\ [][NextMain]_vars

(* ----------------------- properties of the game ----------------------- *)

\* the array successors of the array image of a bitboard, mapped back
ArrayBoardsOf(game, maximizingPlayer) ==
    LET boards == AtaxxBoard_NextBoards(ToBoard(game), maximizingPlayer)
    IN [i \in 1..Len(boards) |-> ToBitboard(boards[i])]

Occupied(game) == game.maximizingPlayer \cup game.minimizingPlayer

EmptyOf(game) == (0..48) \ Occupied(game)

PiecesOf(game, maximizingPlayer) ==
    IF maximizingPlayer THEN game.maximizingPlayer ELSE game.minimizingPlayer

Abs(n) == IF n < 0 THEN -n ELSE n

\* Chebyshev distance of two cells
Distance(c, d) ==
    LET dx == Abs((c % 7) - (d % 7))
        dy == Abs((c \div 7) - (d \div 7))
    IN IF dx > dy THEN dx ELSE dy

\* the side has a piece within distance 2 of an empty cell
InRange(game, maximizingPlayer) ==
    \E e \in EmptyOf(game) : \E p \in PiecesOf(game, maximizingPlayer) : Distance(e, p) <= 2

\* the side must pass: there is an empty cell, but none in its range
MustPass(game, maximizingPlayer) ==
    EmptyOf(game) # {} /\ ~InRange(game, maximizingPlayer)

\* C1: for the board on the table and either side, the bitboard generator
\* and the array generator return the same sequence of successors under the
\* mapping bit y*7+x <-> cell [y][x], the forced pass and the full board
\* included.
C1_GeneratorsAgree ==
    \A maximizingPlayer \in BOOLEAN :
        AtaxxBitboard_NextBoards(board, maximizingPlayer)
            = ArrayBoardsOf(board, maximizingPlayer)

\* C4: no cell of the board on the table belongs to both populations.
C4_Disjoint ==
    And(board.maximizingPlayer, board.minimizingPlayer) = {}

\* C4 witness: a board reached by moves of both sides, some of them away
\* from the recorded game, on which both sides have captured and grown.
C4_Witness ==
    /\ off = MaxOff
    /\ turn > 20
    /\ Cardinality(board.maximizingPlayer) > 8
    /\ Cardinality(board.minimizingPlayer) > 8
    /\ C4_Disjoint

\* C5: neither population of the board on the table has a bit at index 49
\* or above.
C5_InBounds ==
    And(Or(board.maximizingPlayer, board.minimizingPlayer), Not(BoardMask)) = {}

\* C5 witness: a board reached by moves on which the last row up to the
\* highest cell, bit 48, is occupied and cell 47 was filled by a move.
C5_Witness ==
    /\ turn > 1
    /\ {42, 43, 44, 45, 46, 47, 48} \subseteq Occupied(board)
    /\ C5_InBounds

\* C6: when the board has an empty cell but the side has no piece within
\* distance 2 of an empty cell, both generators return the board itself as
\* the only successor, and the board is not finished.
C6_ForcedPass ==
    \A maximizingPlayer \in BOOLEAN :
        MustPass(board, maximizingPlayer) =>
            /\ AtaxxBitboard_NextBoards(board, maximizingPlayer) = <<board>>
            /\ AtaxxBoard_NextBoards(ToBoard(board), maximizingPlayer) = <<ToBoard(board)>>
            /\ ~AtaxxBitboard_Finished(board)
            /\ ~AtaxxBoard_Finished(ToBoard(board))

\* C7: on a board with all 49 cells occupied both generators return the
\* empty sequence for both sides.
C7_Terminal ==
    EmptyOf(board) = {} =>
        \A maximizingPlayer \in BOOLEAN :
            /\ AtaxxBitboard_NextBoards(board, maximizingPlayer) = <<>>
            /\ AtaxxBoard_NextBoards(ToBoard(board), maximizingPlayer) = <<>>

\* C8: the board on the table is finished if and only if the generator
\* returns no successor for the maximizer and none for the minimizer.
C8_FinishedIffNoBoards ==
    AtaxxBitboard_Finished(board)
        <=> \A maximizingPlayer \in BOOLEAN :
                AtaxxBitboard_NextBoards(board, maximizingPlayer) = <<>>

\* C9: the score of the board on the table is the number of maximizer
\* cells minus the number of minimizer cells, for the bitboard and for its
\* array image, and lies in -49..49; PiecesPlaced counts exactly the set
\* bits of its argument (the populations and their 64-bit complements).
C9_Score ==
    LET maxCells == Cardinality(board.maximizingPlayer)
        minCells == Cardinality(board.minimizingPlayer)
    IN /\ AtaxxBitboard_Score(board) = maxCells - minCells
       /\ AtaxxBoard_Score(ToBoard(board)) = maxCells - minCells
       /\ AtaxxBitboard_Score(board) \in -49..49
       /\ PiecesPlaced(board.maximizingPlayer) = maxCells
       /\ PiecesPlaced(board.minimizingPlayer) = minCells
       /\ PiecesPlaced(Not(board.maximizingPlayer)) = 64 - maxCells
       /\ PiecesPlaced(Not(board.minimizingPlayer)) = 64 - minCells

\* C9 witness: a board off the recorded game on which the minimizer leads
\* by more than five cells.
C9_Witness ==
    /\ off > 0
    /\ AtaxxBitboard_Score(board) < -5
    /\ C9_Score

(* ----------------------- properties of the searches ------------------- *)

FullWindow == search.alpha = -49 /\ search.beta = 49

\* C2: the score AlphaBeta returns for the window (-49, 49) is the score
\* Minimax returns for the same board, side and depth, multiplied by the
\* colour of the side (1 for the maximizing, -1 for the minimizing player).
C2_FullWindowScore ==
    (search.op = "AlphaBeta" /\ FullWindow) =>
        LET c == IF search.maximizingPlayer THEN 1 ELSE -1
        IN search.score = Minimax(search.game, c, search.depth).score * c

\* AlphaBeta was called with the full window and the greatest depth on a
\* board that leaves the side on the move a choice, and a narrower window
\* would have returned another score
C2_Witness ==
    /\ search.op = "AlphaBeta" /\ FullWindow
    /\ search.depth = MaxDepth
    /\ Len(AtaxxBitboard_NextBoards(search.game, search.maximizingPlayer)) > 1
    /\ search.score # AlphaBeta(search.game, search.maximizingPlayer, search.depth, -1, 1).score

\* C3: AlphaBetaTransposition, called with an empty table, returns the
\* board and the score AlphaBeta returns for the same arguments.
C3_SameAsAlphaBeta ==
    search.op = "AlphaBetaTransposition" =>
        /\ ~search.panicked
        /\ LET ab == AlphaBeta(search.game, search.maximizingPlayer, search.depth,
                               search.alpha, search.beta)
           IN search.board = ab.board /\ search.score = ab.score

(* ----------------------- properties of the table ---------------------- *)

\* C11: a Store that finds as many entries as the capacity leaves exactly
\* the entry it stores; a Store that finds another number of entries keeps
\* every other entry as it was and adds or overwrites only its own key.
C11_FlushOnFull ==
    stored.called =>
        LET map == transposition.transpositionMap
        IN IF Cardinality(DOMAIN stored.before) = transposition.maxSize
           THEN /\ DOMAIN map = {stored.key}
                /\ map[stored.key] = stored.value
           ELSE /\ DOMAIN map = DOMAIN stored.before \cup {stored.key}
                /\ map[stored.key] = stored.value
                /\ \A k \in DOMAIN stored.before \ {stored.key} : map[k] = stored.before[k]

\* C11 witness: a Store into a table of capacity 3 that held three entries,
\* none of them under the stored key
C11_Witness ==
    /\ stored.called
    /\ transposition.maxSize = 3
    /\ Cardinality(DOMAIN stored.before) = 3
    /\ stored.key \notin DOMAIN stored.before

\* C10: after any sequence of Store calls on a table created with capacity
\* n, the table holds at most n entries.
C10_WithinCapacity ==
    Cardinality(DOMAIN transposition.transpositionMap) <= transposition.maxSize

\* C12: the entry AlphaBetaTransposition stores under one window is not
\* found by the lookup a call makes for the same board, side and depth under
\* another window.
C12_WindowInKey ==
    (search.op = "AlphaBetaTransposition" /\ ~search.panicked) =>
        \A w \in Windows \ {<<search.alpha, search.beta>>} :
            ~AlphaBetaTranspositionLookup(search.game, search.maximizingPlayer, search.depth,
                                          w[1], w[2], search.table).found

\* C13: when AlphaBetaTransposition has returned for an empty table, the
\* same call on the table it left returns as well, with the same board and
\* the same score.
C13_SecondCallSame ==
    (search.op = "AlphaBetaTransposition" /\ ~search.panicked) =>
        LET second == AlphaBetaTransposition(search.game, search.maximizingPlayer,
                          search.depth, search.alpha, search.beta, search.table)
        IN /\ ~second.panicked
           /\ second.board = search.board
           /\ second.score = search.score

\* C15: when AlphaBetaTransposition, called with an empty table, returns, the
\* table holds under the key of the call's board, side and depth exactly the
\* board and the score the call returned, whichever way the call returned.
C15_StoresWhatItReturns ==
    (search.op = "AlphaBetaTransposition" /\ ~search.panicked) =>
        LET hash == AlphaBetaTranspositionLookup(search.game, search.maximizingPlayer,
                        search.depth, search.alpha, search.beta, search.table)
        IN /\ hash.found
           /\ hash.resultBoard = search.board
           /\ hash.resultScore = search.score

\* C15 witness: a call that returned one of the successors from its loop
\* over them, after the calls below it stored their own results
C15_Witness ==
    /\ search.op = "AlphaBetaTransposition"
    /\ ~search.panicked
    /\ search.depth >= 1
    /\ search.board # search.game
    /\ Cardinality(DOMAIN search.table.transpositionMap) > 1

\* C16: a call of AlphaBetaTransposition that finds its key in the table
\* does not end in a panic: it returns the board and the score of the entry
\* and leaves the table as it found it.
C16_HitReturnsEntry ==
    (search.op = "AlphaBetaTransposition" /\ ~search.panicked) =>
        LET hash == AlphaBetaTranspositionLookup(search.game, search.maximizingPlayer,
                        search.depth, search.alpha, search.beta, search.table)
            hit == AlphaBetaTransposition(search.game, search.maximizingPlayer,
                        search.depth, search.alpha, search.beta, search.table)
        IN hash.found =>
              /\ ~hit.panicked
              /\ hit.board = hash.resultBoard
              /\ hit.score = hash.resultScore
              /\ hit.transposition = search.table

\* C17: in every state of the game, which main starts after InitBitboards,
\* for every cell c the subdivide mask of c holds the cells of the board at
\* Chebyshev distance 1 of c, the jump mask those at distance 2, and the
\* move mask is the two together; no mask has a bit outside the board.
C17_Masks ==
    turn >= 1 =>
        \A c \in 0..48 :
            /\ subdivideMask[c] = {d \in 0..48 : Distance(c, d) = 1}
            /\ jumpMask[c] = {d \in 0..48 : Distance(c, d) = 2}
            /\ moveMask[c] = Or(subdivideMask[c], jumpMask[c])
            /\ c \notin moveMask[c]
            /\ And(subdivideMask[c], jumpMask[c]) = {}

\* C17 witness: a game under way on the tables, which are cut off at the
\* corner (3 and 5 cells) and whole in the centre (8 and 16 cells)
C17_Witness ==
    /\ turn > 1
    /\ Cardinality(subdivideMask[0]) = 3
    /\ Cardinality(jumpMask[0]) = 5
    /\ Cardinality(subdivideMask[24]) = 8
    /\ Cardinality(jumpMask[24]) = 16
    /\ And(board.maximizingPlayer, moveMask[24]) # {}

\* the cell a successor's move landed on: the one that was empty
Destination(game, next) == CHOOSE d \in EmptyOf(game) : d \in Occupied(next)

\* the rank of a successor among those landing on the same cell: the cell
\* the moving piece jumped from, or 49 for a subdivision, which vacates none
SourceRank(game, next) ==
    LET vacated == Occupied(game) \ Occupied(next)
    IN IF vacated = {} THEN 49 ELSE CHOOSE s \in vacated : TRUE

\* the successors are in ascending order of (destination, source rank):
\* each one comes before the next one
Ascending(game, boards) ==
    \A i \in 1..(Len(boards) - 1) :
        \/ Destination(game, boards[i]) < Destination(game, boards[i + 1])
        \/ /\ Destination(game, boards[i]) = Destination(game, boards[i + 1])
           /\ SourceRank(game, boards[i]) < SourceRank(game, boards[i + 1])

\* C18: for the board on the table, when it is not full, and either side,
\* the bitboard generator returns the successors grouped by destination in
\* ascending bit index and, for one destination, the jumps in ascending bit
\* index of their source followed by the subdivision.
C18_EmissionOrder ==
    ~AtaxxBitboard_Finished(board) =>
        \A maximizingPlayer \in BOOLEAN :
            Ascending(board, AtaxxBitboard_NextBoards(board, maximizingPlayer))

\* C18 witness: X on the move with two successors landing on different
\* cells and three landing on one cell, two jumps and the subdivision
C18_Witness ==
    LET boards == AtaxxBitboard_NextBoards(board, TRUE)
    IN /\ ~AtaxxBitboard_Finished(board)
       /\ \E i, j \in 1..Len(boards) : Destination(board, boards[i]) # Destination(board, boards[j])
       /\ \E i \in 1..(Len(boards) - 2) :
             /\ Destination(board, boards[i]) = Destination(board, boards[i + 2])
             /\ SourceRank(board, boards[i + 1]) < 49
             /\ SourceRank(board, boards[i + 2]) = 49

\* is `next` a subdivision onto the empty cell d: d is taken by the side and
\* no cell is vacated
SubdivisionOnto(game, maximizingPlayer, next, d) ==
    /\ d \in PiecesOf(next, maximizingPlayer)
    /\ Occupied(next) = Occupied(game) \cup {d}

\* how many of the boards are subdivisions onto d
Subdivisions(game, maximizingPlayer, boards, d) ==
    Cardinality({i \in 1..Len(boards) : SubdivisionOnto(game, maximizingPlayer, boards[i], d)})

\* one subdivision onto d when a piece of the side is next to d, else none
OncePerDestination(game, maximizingPlayer, boards) ==
    \A d \in EmptyOf(game) :
        Subdivisions(game, maximizingPlayer, boards, d) =
            IF \E p \in PiecesOf(game, maximizingPlayer) : Distance(p, d) = 1 THEN 1 ELSE 0

\* C19: for the board on the table, either side and every empty cell d, the
\* bitboard generator and the array generator each return exactly one
\* subdivision onto d when at least one piece of the side is adjacent to d,
\* and none otherwise.
C19_OneSubdivision ==
    \A maximizingPlayer \in BOOLEAN :
        /\ OncePerDestination(board, maximizingPlayer,
                              AtaxxBitboard_NextBoards(board, maximizingPlayer))
        /\ OncePerDestination(board, maximizingPlayer,
                              ArrayBoardsOf(board, maximizingPlayer))

\* C19 witness: X on the move with an empty cell that three of its pieces are
\* adjacent to and an empty cell it reaches by jumps only, the generator
\* returning one subdivision onto the first
C19_Witness ==
    /\ \E d \in EmptyOf(board) :
          /\ Cardinality({p \in PiecesOf(board, TRUE) : Distance(p, d) = 1}) >= 3
          /\ Subdivisions(board, TRUE, AtaxxBitboard_NextBoards(board, TRUE), d) = 1
    /\ \E d \in EmptyOf(board) :
          /\ \A p \in PiecesOf(board, TRUE) : Distance(p, d) # 1
          /\ \E p \in PiecesOf(board, TRUE) : Distance(p, d) = 2

\* the pieces of the other side next to the cell d
Infected(game, maximizingPlayer, d) ==
    {q \in PiecesOf(game, ~maximizingPlayer) : Distance(q, d) = 1}

\* the board after a piece of the side appears on d: the neighbours of the
\* other side change hands, every other cell stays as it is
Landed(game, maximizingPlayer, d) ==
    LET mine == PiecesOf(game, maximizingPlayer) \cup {d} \cup Infected(game, maximizingPlayer, d)
        theirs == PiecesOf(game, ~maximizingPlayer) \ Infected(game, maximizingPlayer, d)
    IN IF maximizingPlayer
       THEN [maximizingPlayer |-> mine, minimizingPlayer |-> theirs]
       ELSE [maximizingPlayer |-> theirs, minimizingPlayer |-> mine]

\* the board after the piece on s jumps to d
Jumped(game, maximizingPlayer, s, d) ==
    LET landed == Landed(game, maximizingPlayer, d)
    IN IF maximizingPlayer
       THEN [landed EXCEPT !.maximizingPlayer = @ \ {s}]
       ELSE [landed EXCEPT !.minimizingPlayer = @ \ {s}]

\* the cells a successor's move took and vacated, read off the two boards
Taken(game, next) == Occupied(next) \ Occupied(game)
Vacated(game, next) == Occupied(game) \ Occupied(next)

\* a successor is the board itself, or it takes exactly one cell, an empty
\* one, and is the landing on that cell, with the one cell it vacated, a
\* cell of the side, left empty
MoveOntoEmpty(game, maximizingPlayer, next) ==
    \/ next = game
    \/ /\ Cardinality(Taken(game, next)) = 1
       /\ Cardinality(Vacated(game, next)) <= 1
       /\ LET d == CHOOSE c \in Taken(game, next) : TRUE
          IN IF Vacated(game, next) = {}
             THEN next = Landed(game, maximizingPlayer, d)
             ELSE LET s == CHOOSE c \in Vacated(game, next) : TRUE
                  IN /\ s \in PiecesOf(game, maximizingPlayer)
                     /\ next = Jumped(game, maximizingPlayer, s, d)

\* the successors that vacate a cell, as pairs <<destination, source>>
JumpPairs(game, boards) ==
    {<<CHOOSE c \in Taken(game, boards[i]) : TRUE, CHOOSE c \in Vacated(game, boards[i]) : TRUE>> :
        i \in {k \in 1..Len(boards) : Vacated(game, boards[k]) # {}}}

\* every board is the board itself or a move onto an empty cell, and every
\* jump of two cells onto an empty cell is there exactly once: the jumps
\* among the boards are pairwise different and those of two cells are among them
JumpsOf(game, maximizingPlayer, boards) ==
    /\ \A i \in 1..Len(boards) : MoveOntoEmpty(game, maximizingPlayer, boards[i])
    /\ Cardinality(JumpPairs(game, boards)) =
          Cardinality({k \in 1..Len(boards) : Vacated(game, boards[k]) # {}})
    /\ {<<d, s>> \in EmptyOf(game) \X PiecesOf(game, maximizingPlayer) : Distance(s, d) = 2}
          \subseteq JumpPairs(game, boards)

\* C20: for the board on the table and either side, no successor of either
\* generator puts a piece on an occupied cell, and for every empty cell d
\* and every piece of the side at distance exactly 2 of d there is exactly
\* one successor in which that piece's cell is empty, d belongs to the side,
\* the other side's pieces next to d have changed hands and every other
\* cell is unchanged.
C20_Jumps ==
    \A maximizingPlayer \in BOOLEAN :
        /\ JumpsOf(board, maximizingPlayer, AtaxxBitboard_NextBoards(board, maximizingPlayer))
        /\ JumpsOf(board, maximizingPlayer, ArrayBoardsOf(board, maximizingPlayer))

\* C20 witness: O on the move with an empty cell that two of its pieces can
\* jump to and that a piece of X is next to, both jumps among the successors
C20_Witness ==
    \E d \in EmptyOf(board) :
        LET sources == {p \in PiecesOf(board, FALSE) : Distance(p, d) = 2}
            boards == AtaxxBitboard_NextBoards(board, FALSE)
        IN /\ Cardinality(sources) >= 2
           /\ Infected(board, FALSE, d) # {}
           /\ \A s \in sources : \E i \in 1..Len(boards) : boards[i] = Jumped(board, FALSE, s, d)

\* C21: Minimax called on the starting position with color 1 and depth 0
\* returns one of the boards the generator returns for X on the starting
\* position, a board of score 1, together with the score 1.
C21_OpeningMinimax ==
    (/\ search.op = "Minimax"
     /\ search.game = NewBitGame
     /\ search.maximizingPlayer
     /\ search.depth = 0) =>
        LET boards == AtaxxBitboard_NextBoards(NewBitGame, TRUE)
        IN /\ \E i \in 1..Len(boards) : boards[i] = search.board
           /\ AtaxxBitboard_Score(search.board) = 1
           /\ search.score = 1

\* C21 witness: Minimax has been called on the starting position with
\* color 1 and depth 0, and X then holds three cells
C21_Witness ==
    /\ search.op = "Minimax"
    /\ search.game = NewBitGame
    /\ search.maximizingPlayer
    /\ search.depth = 0
    /\ Cardinality(search.board.maximizingPlayer) = 3

\* C22: the board main starts from, which is NewBitGame(), has the bits 0
\* and 48 for the maximizer and the bits 6 and 42 for the minimizer, and
\* bit y*7+x of it is set for a side exactly when cell [y][x] of NewGame()
\* holds a piece of that side.
C22_StartingPosition ==
    (turn = 1 /\ off = 0) =>
        /\ board.maximizingPlayer = {0, 48}
        /\ board.minimizingPlayer = {6, 42}
        /\ \A y \in 0..6 : \A x \in 0..6 :
              /\ NewGame[y][x] = 1 <=> (y * 7 + x) \in board.maximizingPlayer
              /\ NewGame[y][x] = -1 <=> (y * 7 + x) \in board.minimizingPlayer
              /\ NewGame[y][x] = 0 <=> (y * 7 + x) \in EmptyOf(board)

\* C22 witness: the game before its first move, two pieces a side
C22_Witness ==
    /\ turn = 1
    /\ off = 0
    /\ search = NoSearch
    /\ PiecesPlaced(board.maximizingPlayer) = 2
    /\ PiecesPlaced(board.minimizingPlayer) = 2
    /\ AtaxxBoard_Score(NewGame) = 0

\* the exact value of a position, as the score of the maximizer: what
\* Minimax finds for the side on the move, seen from the maximizer
ExactValue(game, maximizingPlayer, depth) ==
    LET sign == IF maximizingPlayer THEN 1 ELSE -1
    IN sign * Minimax(game, sign, depth).score

\* the value of a successor of a node searched to the given depth by the
\* side maximizingPlayer: its score at depth 0, else its exact value one
\* level down with the other side on the move
SuccessorValue(next, maximizingPlayer, depth) ==
    IF depth = 0 THEN AtaxxBitboard_Score(next)
    ELSE ExactValue(next, ~maximizingPlayer, depth - 1)

\* the score a search returned, as the score of the maximizer (Minimax
\* returns the score of the side on the move)
ReturnedValue ==
    IF search.op = "Minimax" /\ ~search.maximizingPlayer THEN -search.score ELSE search.score

\* the search the record holds is Minimax, or AlphaBeta with the window
\* (-49, 49), on a board the generator returns successors for
FullSearch ==
    /\ \/ search.op = "Minimax"
       \/ search.op = "AlphaBeta" /\ FullWindow
    /\ Len(AtaxxBitboard_NextBoards(search.game, search.maximizingPlayer)) > 0

\* C23: when the generator returns successors, the board Minimax returns,
\* and the board AlphaBeta returns for the window (-49, 49), is one of the
\* successors: the first in the order of the generator whose value is the
\* returned score, no successor being better for the side on the move.
C23_FirstBest ==
    FullSearch =>
        LET boards == AtaxxBitboard_NextBoards(search.game, search.maximizingPlayer)
            sign == IF search.maximizingPlayer THEN 1 ELSE -1
            value == [i \in 1..Len(boards) |->
                         SuccessorValue(boards[i], search.maximizingPlayer, search.depth)]
        IN \E k \in 1..Len(boards) :
              /\ boards[k] = search.board
              /\ value[k] = ReturnedValue
              /\ \A j \in 1..(k - 1) : sign * value[j] < sign * ReturnedValue
              /\ \A j \in (k + 1)..Len(boards) : sign * value[j] <= sign * ReturnedValue

\* C23 witness: AlphaBeta, searching below the board on the table with the
\* window (-49, 49), returned a successor that a later successor equals in
\* value
C23_Witness ==
    /\ search.op = "AlphaBeta"
    /\ FullWindow
    /\ search.depth >= 1
    /\ LET boards == AtaxxBitboard_NextBoards(search.game, search.maximizingPlayer)
       IN \E k \in 1..Len(boards) : \E j \in (k + 1)..Len(boards) :
             /\ boards[k] = search.board
             /\ boards[j] # boards[k]
             /\ SuccessorValue(boards[j], search.maximizingPlayer, search.depth) = ReturnedValue

\* the best of the first n scores of the account for the side on the move
\* (its highest for the maximizer, its lowest for the minimizer), and the
\* first place it is found at
BestOf(account, maximizingPlayer, n) ==
    CHOOSE v \in {account[i].score : i \in 1..n} :
        \A i \in 1..n : IF maximizingPlayer THEN account[i].score <= v ELSE account[i].score >= v

FirstAt(account, v, n) == CHOOSE k \in 1..n : account[k].score = v /\ \A j \in 1..(k - 1) : account[j].score # v

\* the search the record holds is AlphaBeta or AlphaBetaTransposition, has
\* returned, and went through its loop below maximum depth
LoopSearch ==
    /\ search.op \in {"AlphaBeta", "AlphaBetaTransposition"}
    /\ ~search.panicked
    /\ search.depth > 0
    /\ Len(AtaxxBitboard_NextBoards(search.game, search.maximizingPlayer)) > 0

\* C24: in the loop of AlphaBeta and of AlphaBetaTransposition below maximum
\* depth the bound of the node is updated after every successor searched
\* (alpha to the best score at a maximizing node, beta at a minimizing
\* one, when that is better), no successor is searched after one that left
\* alpha >= beta, and the call returns the best score found up to the last
\* successor searched, with the first successor that has it.
C24_CutOff ==
    LoopSearch =>
        LET boards == AtaxxBitboard_NextBoards(search.game, search.maximizingPlayer)
            account == search.searched
            n == Len(account)
            alphaBefore(i) == IF i = 1 THEN search.alpha ELSE account[i - 1].alpha
            betaBefore(i) == IF i = 1 THEN search.beta ELSE account[i - 1].beta
        IN /\ n >= 1
           /\ n <= Len(boards)
           /\ \A i \in 1..n :
                 LET best == BestOf(account, search.maximizingPlayer, i)
                 IN IF search.maximizingPlayer
                    THEN /\ account[i].alpha = (IF best > alphaBefore(i) THEN best ELSE alphaBefore(i))
                         /\ account[i].beta = betaBefore(i)
                    ELSE /\ account[i].beta = (IF best < betaBefore(i) THEN best ELSE betaBefore(i))
                         /\ account[i].alpha = alphaBefore(i)
           /\ \A i \in 1..(n - 1) : account[i].alpha < account[i].beta
           /\ n < Len(boards) => account[n].alpha >= account[n].beta
           /\ search.score = BestOf(account, search.maximizingPlayer, n)
           /\ search.board = boards[FirstAt(account, search.score, n)]

\* C24 witness: AlphaBeta searched two successors or more, left its loop on
\* alpha >= beta and left successors unsearched
C24_Witness ==
    /\ search.op = "AlphaBeta"
    /\ search.depth > 0
    /\ Len(search.searched) >= 2
    /\ Len(search.searched) < Len(AtaxxBitboard_NextBoards(search.game, search.maximizingPlayer))
    /\ search.searched[Len(search.searched)].alpha >= search.searched[Len(search.searched)].beta
    /\ search.searched[1].alpha < search.searched[1].beta

\* the bitboard generator has been called: a round of the self-play loop
\* has run or a search has been called
GeneratorCalled == turn > 1 \/ search.op # "none"

\* C25: whenever the bitboard generator has been called, by the self-play
\* loop or by the /ply handler, the mask tables are as InitBitboards fills
\* them, and the only step that changes the tables is the call of
\* InitBitboards at the start of main.
C25_MaskLifecycle ==
    /\ [](GeneratorCalled => masks = InitBitboards)
    /\ [][masks' # masks => (pc = "main" /\ masks' = InitBitboards)]_vars

\* C25 witness: the /ply handler has answered a request
C25_Witness ==
    /\ pc = "serving"
    /\ search.op = "AlphaBeta"
    /\ search.depth = 4
    /\ search.board # search.game
    /\ masks = InitBitboards

\* C26: a call of Minimax, AlphaBeta or AlphaBetaTransposition with depth 0
\* makes no recursive call, every recursive call of a call with a greater
\* depth is handed that depth less one, and the longest chain of nested
\* recursive calls below a call is no longer than its depth.
C26_DepthBoundsNesting ==
    (search.op # "none" /\ ~search.panicked) =>
        /\ search.depth = 0 => search.searched = <<>>
        /\ \A i \in 1..Len(search.searched) : search.searched[i].depth = search.depth - 1
        /\ Nested(search.searched) <= search.depth

\* C26 witness: a Minimax call of the greatest depth has returned after a
\* chain of nested calls as long as its depth
C26_Witness ==
    /\ search.op = "Minimax"
    /\ search.depth = MaxDepth
    /\ Len(search.searched) >= 2
    /\ Nested(search.searched) = search.depth

\* the cells of an array board that meet a condition, as (x, y) pairs
CellsOf(cells, Holds(_)) == {p \in (0..6) \X (0..6) : Holds(cells[p[2]][p[1]])}

\* the cell a successor of an array board landed on: the one cell that was
\* empty and is held in the successor
LandedOn(before, after) ==
    {p \in (0..6) \X (0..6) : before[p[2]][p[1]] = 0 /\ after[p[2]][p[1]] # 0}

Adjacent(p, q) == p # q /\ Abs(p[1] - q[1]) <= 1 /\ Abs(p[2] - q[2]) <= 1

\* C27: for the board on the table and either side, every successor the
\* value-receiver generator of src/ataxx.go emits for a move has no piece of
\* the opponent next to the cell the move landed on, and away from that
\* cell and its neighbours it differs from the board only in the cell a
\* jumping piece left.
C27_ValueInfection ==
    \A side \in {1, -1} :
        LET before == ToBoard(board)
            boards == AtaxxBoardValue_NextBoards(before, side)
        IN \A k \in 1..Len(boards) :
              boards[k] # before =>
                  /\ Cardinality(LandedOn(before, boards[k])) = 1
                  /\ \A p \in LandedOn(before, boards[k]) :
                        \A q \in (0..6) \X (0..6) :
                            IF Adjacent(p, q)
                            THEN boards[k][q[2]][q[1]] # -side
                            ELSE \/ q = p
                                 \/ boards[k][q[2]][q[1]] = before[q[2]][q[1]]
                                 \/ boards[k][q[2]][q[1]] = 0 /\ before[q[2]][q[1]] = side

\* the search the record holds is AlphaBeta with alpha below beta
WindowSearch == search.op = "AlphaBeta" /\ search.alpha < search.beta

\* C28: the score AlphaBeta returns for a window alpha < beta is the exact
\* value of the position at that depth when the value lies strictly inside
\* the window, is at most alpha when the value is at most alpha, and is at
\* least beta when the value is at least beta.
C28_WindowSound ==
    WindowSearch =>
        LET v == ExactValue(search.game, search.maximizingPlayer, search.depth)
        IN /\ (search.alpha < v /\ v < search.beta) => search.score = v
           /\ v <= search.alpha => search.score <= search.alpha
           /\ v >= search.beta => search.score >= search.beta

\* C28 witness: AlphaBeta searched below maximum depth with a window that
\* the exact value lies outside of, and left successors unsearched
C28_Witness ==
    /\ WindowSearch
    /\ search.depth >= 2
    /\ ~FullWindow
    /\ Len(search.searched) < Len(AtaxxBitboard_NextBoards(search.game, search.maximizingPlayer))
    /\ LET v == ExactValue(search.game, search.maximizingPlayer, search.depth)
       IN v <= search.alpha \/ v >= search.beta

\* a side has a successor that is not the board itself
CanLeave(boards, here) == \E k \in 1..Len(boards) : boards[k] # here

\* C29: on every board of the game that is not finished at least one of
\* the two sides is given, by the bitboard generator and by the array
\* generator alike, a successor that differs from the board.
C29_NoMutualDeadlock ==
    ~AtaxxBitboard_Finished(board) =>
        /\ \E maximizingPlayer \in BOOLEAN :
              CanLeave(AtaxxBitboard_NextBoards(board, maximizingPlayer), board)
        /\ \E maximizingPlayer \in BOOLEAN :
              CanLeave(AtaxxBoard_NextBoards(ToBoard(board), maximizingPlayer), ToBoard(board))

\* C29 witness: an unfinished board on which the maximizer has no successor
\* but the board itself and the minimizer has one
C29_Witness ==
    /\ ~AtaxxBitboard_Finished(board)
    /\ ~CanLeave(AtaxxBitboard_NextBoards(board, TRUE), board)
    /\ AtaxxBoard_NextBoards(ToBoard(board), TRUE) = <<ToBoard(board)>>
    /\ CanLeave(AtaxxBitboard_NextBoards(board, FALSE), board)
    /\ CanLeave(AtaxxBoard_NextBoards(ToBoard(board), FALSE), ToBoard(board))

\* a successor of a board for a side keeps the count of empty cells: one
\* fewer when no piece of the side left its cell (a subdivision), the same
\* when one did (a jump); and the side that waits gains no cell
KeepsCount(game, next, maximizingPlayer) ==
    /\ IF PiecesOf(game, maximizingPlayer) \subseteq PiecesOf(next, maximizingPlayer)
       THEN Cardinality(EmptyOf(next)) = Cardinality(EmptyOf(game)) - 1
       ELSE Cardinality(EmptyOf(next)) = Cardinality(EmptyOf(game))
    /\ PiecesOf(next, ~maximizingPlayer) \subseteq PiecesOf(game, ~maximizingPlayer)

\* every successor in the list that is not the board itself keeps the count
AllKeepCount(game, boards, maximizingPlayer) ==
    \A k \in 1..Len(boards) :
        boards[k] # game => KeepsCount(game, boards[k], maximizingPlayer)

\* C30: every successor that the bitboard generator and the array generator
\* return for the board on the table has one empty cell fewer when it is a
\* subdivision and as many when it is a jump, and the waiting side holds in
\* it no cell it did not hold before; and no step of the game increases the
\* number of empty cells.
C30_EmptyCellsNeverIncrease ==
    /\ [](\A maximizingPlayer \in BOOLEAN :
            /\ AllKeepCount(board, AtaxxBitboard_NextBoards(board, maximizingPlayer),
                            maximizingPlayer)
            /\ AllKeepCount(board, ArrayBoardsOf(board, maximizingPlayer), maximizingPlayer))
    /\ [][Cardinality(EmptyOf(board')) <= Cardinality(EmptyOf(board))]_vars

\* C30 witness: a board reached by moves for which the generator returns to
\* the maximizer a jump and a subdivision that takes cells from the
\* minimizer
C30_Witness ==
    /\ turn > 10
    /\ LET boards == AtaxxBitboard_NextBoards(board, TRUE)
       IN /\ \E k \in 1..Len(boards) :
                /\ ~(board.maximizingPlayer \subseteq boards[k].maximizingPlayer)
                /\ Cardinality(EmptyOf(boards[k])) = Cardinality(EmptyOf(board))
          /\ \E k \in 1..Len(boards) :
                /\ board.maximizingPlayer \subseteq boards[k].maximizingPlayer
                /\ boards[k].minimizingPlayer # board.minimizingPlayer
                /\ Cardinality(EmptyOf(boards[k])) = Cardinality(EmptyOf(board)) - 1

=============================================================================
